---- MODULE Spec2Model ----
(***************************************************************************)
(* State-machine model of the OAuth / OIDC core of mcp-oauth-setup:        *)
(*   - exchange_token            (mcp-okta-server/mcp_server.py)           *)
(*   - OktaTokenVerifier         (mcp-okta-server/okta_token_verifier.py)  *)
(*   - verify_jwt_token          (mcp-okta-backend/mcp_backend.py)         *)
(*   - call_third_party_api      (mcp-okta-server/mcp_server.py)           *)
(*   - authenticate_with_okta    (mcp-okta-client/mcp_client.py,           *)
(*                                mcp-okta-client/okta_oauth_provider.py)  *)
(* Each component has its own specification; the variables of the other    *)
(* components rest at their idle values.                                   *)
(***************************************************************************)
EXTENDS Integers, Sequences, FiniteSets, TLC

VARIABLES
    \* ---- exchange_token (one call) ----
    xpc,        \* position of the call: "start", "await1", "await2", "done"
    xenv,       \* which of the environment settings the call found set
    xsubject,   \* the access_token argument
    xkey,       \* the DPoP key pair generated by the call (0: none yet)
    xkeygens,   \* number of rsa.generate_private_key calls
    xdraws,     \* number of os.urandom draws (each draw is a fresh value)
    xposts,     \* the POSTs sent to the token endpoint, in order
    xresps,     \* the responses received, in order
    xresult     \* what the call returned or raised

xvars == <<xpc, xenv, xsubject, xkey, xkeygens, xdraws, xposts, xresps, xresult>>

VARIABLES
    \* ---- OktaTokenVerifier (one verifier, one verify_token call) ----
    ipc,        \* "new", "ctor_failed", "ready", "await", "done"
    ienv,       \* which settings the constructor found set
    itoken,     \* the bearer token being verified
    isent,      \* number of introspection POSTs sent
    ioutcome,   \* how the introspection POST ended (a response, or an error)
    iresult     \* what verify_token returned or raised

ivars == <<ipc, ienv, itoken, isent, ioutcome, iresult>>

VARIABLES
    \* ---- verify_jwt_token / validate_token (one request) ----
    jpc,        \* "start", "done"
    jtoken,     \* the bearer token of the request
    jjwks,      \* the key ids of the identity provider's key set
    jfetches,   \* number of GETs of the key set made by the request
    jresult     \* the outcome of the request

jvars == <<jpc, jtoken, jjwks, jfetches, jresult>>

VARIABLES
    \* ---- authenticate_with_okta (one authentication attempt) ----
    cpc,         \* position of the main task
    cenv,        \* which settings OktaOAuthProvider.__init__ finds set
    cverifier,   \* PKCE code_verifier generated for the attempt
    cchallenge,  \* PKCE code_challenge generated for the attempt
    cstate,      \* anti-CSRF state generated for the attempt
    srunning,    \* the callback listener is serving
    scode,       \* server.auth_code
    sstate,      \* server.state
    hpc,         \* listener thread: "idle", "writing" between its two writes,
                 \* "answering" between the second write and the 200 answer
    hreq,        \* the callback request the listener is handling
    chandled,    \* status codes of the callback requests answered so far
    cpolls,      \* sleeps of wait_for_callback so far
    cgotcode,    \* auth_code as returned by wait_for_callback
    cgotstate,   \* received_state as returned by wait_for_callback
    csent,       \* requests sent: the authorization URL, the token POST
    cresp,       \* the token endpoint's answer to the code exchange
    cpending,    \* outcome the try block ended with, before `finally` runs
    cresult      \* what authenticate_with_okta returned or raised

cvars == <<cpc, cenv, cverifier, cchallenge, cstate, srunning, scode, sstate, hpc,
           hreq, chandled, cpolls, cgotcode, cgotstate, csent, cresp, cpending,
           cresult>>

VARIABLES
    \* ---- call_third_party_api (one call of the tool) ----
    tpc,        \* "start", "exchanging", "await_api", "done"
    tctx,       \* the access token of the request context (None: there is none)
    tapiurl,    \* THIRD_PARTY_API_URL is set
    tdown,      \* the requests sent to the downstream API, in order
    tresult     \* what the tool returned or raised

tvars == <<tpc, tctx, tapiurl, tdown, tresult>>

vars == <<xvars, ivars, jvars, cvars, tvars>>

----------------------------------------------------------------------------
(* Bounds of the model *)

NumSubjectTokens == 2   \* caller access tokens "S1".."Sn"
NumIssuedTokens == 2    \* access tokens the identity provider may issue
NumNonces == 2          \* DPoP nonces the identity provider may supply
NumKeys == 2            \* RSA key pairs the generator may produce
NumBearerTokens == 2    \* bearer tokens presented for verification
MaxScopeLen == 3        \* longest scope string, in characters
MaxScopeList == 2       \* longest scope list, in items
MaxTime == 2            \* latest time a token's exp, nbf or iat names
ClockNow == 1           \* the time at which the token is verified
NumSigningKeys == 2     \* signing keys "k1".."kn" a token may name
NumVerifiers == 2       \* values secrets.token_bytes may yield for the verifier
NumStates == 2          \* values secrets.token_urlsafe may yield for the state
NumCodes == 2           \* authorization codes a callback may carry
MaxCallbacks == 2       \* callback requests reaching the listener
MaxPolls == 1           \* sleeps of wait_for_callback before the timeout

\* Python's None (an absent header, a missing JSON member)
None == "<None>"

SubjectTokens == {"S" \o ToString(i) : i \in 1..NumSubjectTokens}
IssuedTokens == {"T" \o ToString(i) : i \in 1..NumIssuedTokens}
Nonces == {"N" \o ToString(i) : i \in 1..NumNonces}

----------------------------------------------------------------------------
(* The identity provider's token endpoint, as exchange_token sees it *)

TokenUrl == "issuer/v1/token"

\* Status codes the token endpoint answers with.
Statuses == {200, 400, 401, 500}

\* A response body: not JSON at all, a JSON value that is not an object,
\* or a JSON object with optional members "error" and "access_token".
Bodies ==
    {[kind |-> "text", error |-> None, access_token |-> None],
     [kind |-> "array", error |-> None, access_token |-> None]}
    \cup [kind : {"object"},
          error : {None, "use_dpop_nonce", "invalid_request"},
          access_token : {None} \cup IssuedTokens]

\* The DPoP-Nonce response header: absent, empty, or a nonce.
NonceHeaders == {None, ""} \cup Nonces

Responses == [status : Statuses, body : Bodies, nonce : NonceHeaders]

\* os.getenv results exchange_token depends on: set, or unset/empty.
Envs == [client_id : BOOLEAN, client_secret : BOOLEAN, audience : BOOLEAN]

NoResult == [kind |-> "none", value |-> None, status |-> 0, body |-> None]
Returned(tok) == [kind |-> "return", value |-> tok, status |-> 0, body |-> None]
Raised(exc) == [kind |-> "raise", value |-> exc, status |-> 0, body |-> None]
\* requests.exceptions.HTTPError keeps the response: status and body.
RaisedHTTPError(resp) ==
    [kind |-> "raise", value |-> "HTTPError", status |-> resp.status, body |-> resp.body]

\* Python truth value of an optional string: None and "" are false.
Truthy(s) == s # None /\ s # ""

\* create_dpop_proof(nonce): header carries the public JWK, the claims carry
\* a fresh jti, the method, the URL and, if a nonce was passed, the nonce;
\* the proof is signed with the call's private key.
create_dpop_proof_DropNonce(nonce, key, jti) ==
    [jwk |-> key, signed_by |-> key, jti |-> jti, htm |-> "POST",
     htu |-> TokenUrl, nonce |-> None]

create_dpop_proof_NewKey(nonce, key, jti) ==
    [jwk |-> IF Truthy(nonce) THEN (key % NumKeys) + 1 ELSE key,
     signed_by |-> IF Truthy(nonce) THEN (key % NumKeys) + 1 ELSE key,
     jti |-> jti, htm |-> "POST", htu |-> TokenUrl,
     nonce |-> IF Truthy(nonce) THEN nonce ELSE None]

create_dpop_proof_FixedJti(nonce, key, jti) ==
    [jwk |-> key, signed_by |-> key, jti |-> 1, htm |-> "POST",
     htu |-> TokenUrl, nonce |-> IF Truthy(nonce) THEN nonce ELSE None]

create_dpop_proof(nonce, key, jti) ==
    [jwk |-> key,
     signed_by |-> key,
     jti |-> jti,
     htm |-> "POST",
     htu |-> TokenUrl,
     nonce |-> IF Truthy(nonce) THEN nonce ELSE None]

\* The form body of the exchange request.
ExchangeData(subject) ==
    [grant_type |-> "urn:ietf:params:oauth:grant-type:token-exchange",
     subject_token_type |-> "urn:ietf:params:oauth:token-type:access_token",
     subject_token |-> subject,
     requested_token_type |-> "urn:ietf:params:oauth:token-type:access_token",
     scope |-> "api:read",
     audience |-> "thirdparty-audience"]

\* requests.post(token_url, headers=headers, data=data, auth=(id, secret))
PostRequestRetryBare(proof, subject) ==
    [url |-> TokenUrl,
     dpop |-> proof,
     data |-> ExchangeData(subject),
     auth |-> IF proof.nonce = None THEN <<"client_id", "client_secret">> ELSE <<>>]

PostRequest(proof, subject) ==
    [url |-> TokenUrl,
     dpop |-> proof,
     data |-> ExchangeData(subject),
     auth |-> <<"client_id", "client_secret">>]

\* The test of line 211, `status_code == 400 and json().get("error") ==
\* "use_dpop_nonce"`: json() is only evaluated for status 400, raises on a
\* body that is not JSON, and .get raises on a JSON value that is no object.
InspectAnyStatus(resp) ==
    IF resp.body.kind = "text" THEN "JSONDecodeError"
    ELSE IF resp.body.kind = "array" THEN "AttributeError"
    ELSE IF resp.body.error = "use_dpop_nonce" THEN "challenge"
    ELSE "no"

Inspect(resp) ==
    IF resp.status # 400 THEN "no"
    ELSE IF resp.body.kind = "text" THEN "JSONDecodeError"
    ELSE IF resp.body.kind = "array" THEN "AttributeError"
    ELSE IF resp.body.error = "use_dpop_nonce" THEN "challenge"
    ELSE "no"

\* Response.raise_for_status(): HTTPError for 4xx and 5xx.
RaisesForStatus(resp) == resp.status >= 400 /\ resp.status < 600

\* Lines 218-225: re-raise the HTTPError, else return json()["access_token"].
Conclude(resp) ==
    IF RaisesForStatus(resp) THEN RaisedHTTPError(resp)
    ELSE IF resp.body.kind = "text" THEN Raised("JSONDecodeError")
    ELSE IF resp.body.kind = "array" THEN Raised("TypeError")
    ELSE IF resp.body.access_token = None THEN Raised("KeyError")
    ELSE Returned(resp.body.access_token)

\* May the call send its retry after a challenge that carried `nonce`?
RetryAllowedAlways(nonce) == TRUE

RetryAllowed(nonce) == Truthy(nonce)

XIdle ==
    /\ xpc = "idle"
    /\ xenv = [client_id |-> TRUE, client_secret |-> TRUE, audience |-> TRUE]
    /\ xsubject = None
    /\ xkey = 0
    /\ xkeygens = 0
    /\ xdraws = 0
    /\ xposts = <<>>
    /\ xresps = <<>>
    /\ xresult = NoResult

XInit ==
    /\ xpc = "start"
    /\ xenv \in Envs
    /\ xsubject \in SubjectTokens
    /\ xkey = 0
    /\ xkeygens = 0
    /\ xdraws = 0
    /\ xposts = <<>>
    /\ xresps = <<>>
    /\ xresult = NoResult

\* Lines 151-166: a missing setting ends the call before any key or request.
XConfigError ==
    /\ xpc = "start"
    /\ ~(xenv.client_id /\ xenv.client_secret /\ xenv.audience)
    /\ xpc' = "done"
    /\ xresult' = Raised(IF ~xenv.client_id THEN "OKTA_CLIENT_ID not set"
                         ELSE IF ~xenv.client_secret THEN "OKTA_CLIENT_SECRET not set"
                         ELSE "THIRDPARTY_OAUTH_AUDIENCE not set")
    /\ UNCHANGED <<xenv, xsubject, xkey, xkeygens, xdraws, xposts, xresps>>

\* Lines 168-209: generate the key pair, build the first proof (no nonce)
\* and the form body, and send the first POST.
XFirstPost ==
    /\ xpc = "start"
    /\ xenv.client_id /\ xenv.client_secret /\ xenv.audience
    /\ \E k \in 1..NumKeys :
        /\ xkey' = k
        /\ xposts' = <<PostRequest(create_dpop_proof(None, k, xdraws + 1), xsubject)>>
    /\ xkeygens' = xkeygens + 1
    /\ xdraws' = xdraws + 1
    /\ xpc' = "await1"
    /\ UNCHANGED <<xenv, xsubject, xresps, xresult>>

\* Lines 209-225 on the first response: inspect it; on a nonce challenge
\* either fail for the missing nonce or send the one retry; otherwise conclude.
XFirstResponse ==
    /\ xpc = "await1"
    /\ \E resp \in Responses :
        /\ xresps' = Append(xresps, resp)
        /\ LET what == Inspect(resp) IN
           IF what \in {"JSONDecodeError", "AttributeError"}
           THEN /\ xresult' = Raised(what)
                /\ xpc' = "done"
                /\ UNCHANGED <<xposts, xdraws>>
           ELSE IF what = "challenge"
           THEN IF RetryAllowed(resp.nonce)
                THEN /\ xposts' = Append(xposts,
                            PostRequest(create_dpop_proof(resp.nonce, xkey, xdraws + 1),
                                        xsubject))
                     /\ xdraws' = xdraws + 1
                     /\ xpc' = "await2"
                     /\ UNCHANGED xresult
                ELSE /\ xresult' = Raised("DPoP nonce not found in response")
                     /\ xpc' = "done"
                     /\ UNCHANGED <<xposts, xdraws>>
           ELSE /\ xresult' = Conclude(resp)
                /\ xpc' = "done"
                /\ UNCHANGED <<xposts, xdraws>>
    /\ UNCHANGED <<xenv, xsubject, xkey, xkeygens>>

\* Lines 216-225 on the response to the retry: conclude, whatever it is.
XRetryResponse ==
    /\ xpc = "await2"
    /\ \E resp \in Responses :
        /\ xresps' = Append(xresps, resp)
        /\ xresult' = Conclude(resp)
    /\ xpc' = "done"
    /\ UNCHANGED <<xenv, xsubject, xkey, xkeygens, xdraws, xposts>>


----------------------------------------------------------------------------
(* call_third_party_api: the tool that calls exchange_token *)

\* exchange_token has not been called yet; the environment is any.
XNotCalled ==
    /\ xpc = "idle"
    /\ xenv \in Envs
    /\ xsubject = None
    /\ xkey = 0
    /\ xkeygens = 0
    /\ xdraws = 0
    /\ xposts = <<>>
    /\ xresps = <<>>
    /\ xresult = NoResult

ThirdPartyApiUrl == "third-party-api"

\* Status codes the downstream API answers with.
DownstreamStatuses == {200, 403, 500}

\* The downstream answer's body: JSON, or text that is not JSON.
DownstreamBodies == {"json", "text"}

NoToolResult == [kind |-> "none", value |-> None]

\* Lines 131-133: raise_for_status(), then return response.json().
ToolResult(st, body) ==
    IF st >= 400 /\ st < 600 THEN [kind |-> "raise", value |-> "HTTPError"]
    ELSE IF body = "text" THEN [kind |-> "raise", value |-> "JSONDecodeError"]
    ELSE [kind |-> "return", value |-> "response.json()"]

\* Lines 129-130: requests.get(api_url, headers={"Authorization":
\* f"Bearer {exchanged_token}"}).
DownstreamRequestOriginal(exchanged, original) ==
    [url |-> ThirdPartyApiUrl, authorization |-> "Bearer " \o original]

DownstreamRequest(exchanged, original) ==
    [url |-> ThirdPartyApiUrl, authorization |-> "Bearer " \o exchanged]

TIdle ==
    /\ tpc = "idle"
    /\ tctx = None
    /\ tapiurl = TRUE
    /\ tdown = <<>>
    /\ tresult = NoToolResult

TInit ==
    /\ tpc = "start"
    /\ tctx \in {None} \cup SubjectTokens
    /\ tapiurl \in BOOLEAN
    /\ tdown = <<>>
    /\ tresult = NoToolResult

\* Lines 113-117: no access token in the request context.
TNoToken ==
    /\ tpc = "start"
    /\ tctx = None
    /\ tresult' = [kind |-> "raise", value |-> "Access token not found in context"]
    /\ tpc' = "done"
    /\ UNCHANGED <<tctx, tapiurl, tdown, xvars>>

\* Lines 118-122: call exchange_token with the token of the context.
TCallExchange ==
    /\ tpc = "start"
    /\ tctx # None
    /\ xpc = "idle"
    /\ xpc' = "start"
    /\ xsubject' = tctx
    /\ tpc' = "exchanging"
    /\ UNCHANGED <<tctx, tapiurl, tdown, tresult, xenv, xkey, xkeygens, xdraws,
                   xposts, xresps, xresult>>

\* Line 122: exchange_token raised; the exception leaves the tool.
TExchangeFailed ==
    /\ tpc = "exchanging"
    /\ xpc = "done"
    /\ xresult.kind = "raise"
    /\ tresult' = [kind |-> "raise", value |-> xresult.value]
    /\ tpc' = "done"
    /\ UNCHANGED <<tctx, tapiurl, tdown, xvars>>

\* Lines 125-127: exchange_token returned but THIRD_PARTY_API_URL is unset.
TNoApiUrl ==
    /\ tpc = "exchanging"
    /\ xpc = "done"
    /\ xresult.kind = "return"
    /\ ~tapiurl
    /\ tresult' = [kind |-> "raise", value |-> "THIRD_PARTY_API_URL not set"]
    /\ tpc' = "done"
    /\ UNCHANGED <<tctx, tapiurl, tdown, xvars>>

\* Lines 125-130: exchange_token returned; GET the downstream API with the
\* exchanged token as bearer.
TDownstreamGet ==
    /\ tpc = "exchanging"
    /\ xpc = "done"
    /\ xresult.kind = "return"
    /\ tapiurl
    /\ tdown' = Append(tdown, DownstreamRequest(xresult.value, tctx))
    /\ tpc' = "await_api"
    /\ UNCHANGED <<tctx, tapiurl, tresult, xvars>>

\* Lines 130-133: the downstream API answers; raise_for_status, else the
\* body is returned.
TDownstreamResponse ==
    /\ tpc = "await_api"
    /\ \E st \in DownstreamStatuses, body \in DownstreamBodies :
        tresult' = ToolResult(st, body)
    /\ tpc' = "done"
    /\ UNCHANGED <<tctx, tapiurl, tdown, xvars>>

----------------------------------------------------------------------------
(* Scope strings and lists *)

\* A Python str is a sequence of characters; scope names are made of
\* letters and separated by spaces.
Letters == {"a"}
Chars == Letters \cup {" "}

SeqsUpTo(S, n) == UNION {[1..k -> S] : k \in 0..n}

ScopeStrings == SeqsUpTo(Chars, MaxScopeLen)
ScopeNames == {<<"a">>, <<"a", "a">>}
ScopeLists == SeqsUpTo(ScopeNames, MaxScopeList)

\* str.split(): the maximal runs of non-space characters, in order.
RECURSIVE SplitFrom(_, _, _)
SplitFrom(s, i, word) ==
    IF i > Len(s)
    THEN IF word = <<>> THEN <<>> ELSE <<word>>
    ELSE IF s[i] = " "
         THEN IF word = <<>> THEN SplitFrom(s, i + 1, <<>>)
              ELSE <<word>> \o SplitFrom(s, i + 1, <<>>)
         ELSE SplitFrom(s, i + 1, Append(word, s[i]))

Split(s) == SplitFrom(s, 1, <<>>)

Range(f) == {f[i] : i \in DOMAIN f}

\* A JSON member holding scopes: absent, a string, a list of strings, or
\* a value of another type (a number).
ScopeValues ==
    {[t |-> "absent", str |-> <<>>, list |-> <<>>],
     [t |-> "int", str |-> <<>>, list |-> <<>>]}
    \cup [t : {"str"}, str : ScopeStrings, list : {<<>>}]
    \cup [t : {"list"}, str : {<<>>}, list : ScopeLists]

----------------------------------------------------------------------------
(* OktaTokenVerifier: verification by introspection *)

BearerTokens == {"B" \o ToString(i) : i \in 1..NumBearerTokens}

\* Settings read by OktaTokenVerifier.__init__.
VerifierEnvs ==
    [domain : BOOLEAN, issuer : BOOLEAN, client_id : BOOLEAN, client_secret : BOOLEAN]

\* The members of the introspection body have the types of the provider's
\* interface, {"active": bool, "scope": str, "client_id": str, "exp": int},
\* or are absent; "active" may also be null and "scope" a list or a number.
ActiveValues ==
    {[t |-> "absent", b |-> FALSE], [t |-> "null", b |-> FALSE],
     [t |-> "bool", b |-> TRUE], [t |-> "bool", b |-> FALSE]}

ClientIdValues ==
    {[t |-> "absent", s |-> None], [t |-> "str", s |-> "cid"]}

ExpValues ==
    {[t |-> "absent", n |-> 0], [t |-> "int", n |-> 1700000000]}

NoFields ==
    [active |-> [t |-> "absent", b |-> FALSE],
     scope |-> [t |-> "absent", str |-> <<>>, list |-> <<>>],
     client_id |-> [t |-> "absent", s |-> None],
     exp |-> [t |-> "absent", n |-> 0]]

IntrospectionBodies ==
    {[kind |-> "text", fields |-> NoFields], [kind |-> "array", fields |-> NoFields]}
    \cup [kind : {"object"},
          fields : [active : ActiveValues, scope : ScopeValues,
                    client_id : ClientIdValues, exp : ExpValues]]

IntrospectionStatuses == {200, 401, 500}

\* How client.post(...) ends: a response, or an httpx transport error.
IntrospectionOutcomes ==
    [error : {None}, status : IntrospectionStatuses, body : IntrospectionBodies]
    \cup [error : {"ConnectError", "ReadTimeout"}, status : {0},
          body : {[kind |-> "text", fields |-> NoFields]}]

NoOutcome == [error |-> None, status |-> 0, body |-> [kind |-> "text", fields |-> NoFields]]

\* Python truth value of token_data.get("active", False).
ActiveUnlessFalse(a) == ~(a.t = "bool" /\ ~a.b)

ActiveTruthy(a) == a.t = "bool" /\ a.b

\* Lines 61-62: scope_str.split() if isinstance(scope_str, str) else [],
\* with "" the default for a missing member.
IntrospectionScopes(sc) ==
    IF sc.t = "str" THEN Split(sc.str)
    ELSE IF sc.t = "absent" THEN Split(<<>>)
    ELSE <<>>

AccessToken(token, f) ==
    [kind |-> "AccessToken",
     token |-> token,
     client_id |-> IF f.client_id.t = "absent" THEN "unknown" ELSE f.client_id.s,
     scopes |-> IntrospectionScopes(f.scope),
     expires_at |-> IF f.exp.t = "absent" THEN 0 ELSE f.exp.n,
     exc |-> None]

ReturnsNone ==
    [kind |-> "None", token |-> None, client_id |-> None, scopes |-> <<>>,
     expires_at |-> 0, exc |-> None]

Propagates(e) ==
    [kind |-> "raise", token |-> None, client_id |-> None, scopes |-> <<>>,
     expires_at |-> 0, exc |-> e]

NoVerdict ==
    [kind |-> "pending", token |-> None, client_id |-> None, scopes |-> <<>>,
     expires_at |-> 0, exc |-> None]

\* Lines 48-77, the body of the try block once the POST has ended.
TryBody(token, out) ==
    IF out.error # None THEN Propagates(out.error)
    ELSE IF out.status # 200 THEN ReturnsNone
    ELSE IF out.body.kind = "text" THEN Propagates("JSONDecodeError")
    ELSE IF out.body.kind = "array" THEN Propagates("AttributeError")
    ELSE IF ~ActiveTruthy(out.body.fields.active) THEN ReturnsNone
    ELSE AccessToken(token, out.body.fields)

\* Lines 79-81: `except Exception` catches every exception of the try block.
CaughtOnlyTransport(e) == e \in {"ConnectError", "ReadTimeout"}

Caught(e) == TRUE

\* verify_token once the POST has ended.
VerifyTokenResult(token, out) ==
    LET r == TryBody(token, out) IN
    IF r.kind = "raise" /\ Caught(r.exc) THEN ReturnsNone ELSE r

IIdle ==
    /\ ipc = "idle"
    /\ ienv = [domain |-> TRUE, issuer |-> TRUE, client_id |-> TRUE, client_secret |-> TRUE]
    /\ itoken = None
    /\ isent = 0
    /\ ioutcome = NoOutcome
    /\ iresult = NoVerdict

IInit ==
    /\ ipc = "new"
    /\ ienv \in VerifierEnvs
    /\ itoken \in BearerTokens
    /\ isent = 0
    /\ ioutcome = NoOutcome
    /\ iresult = NoVerdict

\* Lines 19-30: the constructor raises ValueError unless every setting is set.
IConstruct ==
    /\ ipc = "new"
    /\ ipc' = IF ienv.domain /\ ienv.issuer /\ ienv.client_id /\ ienv.client_secret
              THEN "ready" ELSE "ctor_failed"
    /\ UNCHANGED <<ienv, itoken, isent, ioutcome, iresult>>

\* Lines 32-47: check the credentials and send the introspection POST.
ICall ==
    /\ ipc = "ready"
    /\ IF ~ienv.client_id \/ ~ienv.client_secret
       THEN /\ ipc' = "done"
            /\ iresult' = ReturnsNone
            /\ UNCHANGED isent
       ELSE /\ ipc' = "await"
            /\ isent' = isent + 1
            /\ UNCHANGED iresult
    /\ UNCHANGED <<ienv, itoken, ioutcome>>

\* Lines 40-81: the POST ends and verify_token returns.
IFinish ==
    /\ ipc = "await"
    /\ \E out \in IntrospectionOutcomes :
        /\ ioutcome' = out
        /\ iresult' = VerifyTokenResult(itoken, out)
    /\ ipc' = "done"
    /\ UNCHANGED <<ienv, itoken, isent>>

----------------------------------------------------------------------------
(* verify_jwt_token: local verification against the key set *)

OKTA_ISSUER == "issuer"
OKTA_AUDIENCE == "api://default"
\* REQUIRED_SCOPE: one scope name.
REQUIRED_SCOPE == <<"a">>

KeyIds == {"k" \o ToString(i) : i \in 1..NumSigningKeys}

\* exp and nbf are times, or absent.
Absent == 0 - 1
ClaimTimes == {Absent} \cup 0..MaxTime

\* iat is absent, a string that names no number (such as "abc", for which
\* int() raises ValueError), or a time: the time of the clock or a later
\* one (jwt.decode only tests iat > now, so an earlier iat is accepted as
\* one at the clock is).
NonNumericString == 0 - 2
IatValues == {Absent, NonNumericString} \cup ClockNow..MaxTime

\* The payload of a token.
Payloads ==
    [exp : ClaimTimes, nbf : ClaimTimes, iat : IatValues,
     iss : {None, OKTA_ISSUER, "other-issuer"},
     aud : {None, OKTA_AUDIENCE, "other-audience"},
     scp : ScopeValues]

NoPayload ==
    [exp |-> Absent, nbf |-> Absent, iat |-> Absent, iss |-> None, aud |-> None,
     scp |-> [t |-> "absent", str |-> <<>>, list |-> <<>>]]

\* A bearer token: a string that is no JWT at all, or a JWT with a header
\* (kid, possibly absent; alg), a payload, and a signature made by the
\* private key of `sig` ("forged": by no key of the provider).
JwtTokens ==
    {[form |-> "malformed", kid |-> None, alg |-> "RS256", sig |-> "forged",
      payload |-> NoPayload]}
    \cup [form : {"jwt"}, kid : {None} \cup KeyIds, alg : {"RS256", "HS256"},
          sig : KeyIds \cup {"forged"}, payload : Payloads]

\* The key sets the provider may publish: k1 alone, k1 and k2, ...
KeySets == {{"k" \o ToString(i) : i \in 1..n} : n \in 1..NumSigningKeys}

Outcome(name, status, why, payload) ==
    [outcome |-> name, status |-> status, why |-> why, payload |-> payload]

HTTP_401_UNAUTHORIZED == 401
HTTP_403_FORBIDDEN == 403

\* get_okta_public_key(kid): the key of the set whose kid matches, or None
\* where the function raises HTTPException(401).
PublicKeyFirst(kid, jwks) == CHOOSE k \in jwks : TRUE

PublicKey(kid, jwks) == IF kid \in jwks THEN kid ELSE None

\* PyJWT's validation of iat, the first claim jwt.decode validates:
\* int(iat) raising ValueError (a string that names no number) is
\* InvalidIssuedAtError, a time ahead of the clock ImmatureSignatureError.
ValidateIat(p, now) ==
    IF p.iat = Absent THEN None
    ELSE IF p.iat = NonNumericString THEN "InvalidIssuedAtError"
    ELSE IF p.iat > now THEN "ImmatureSignatureError"
    ELSE None

\* PyJWT's claim validation as jwt.decode(..., audience=, issuer=) runs it:
\* iat, then nbf, then exp, then iss, then aud; the first failure is the
\* error.
ValidateClaimsExpLast(p, now) ==
    IF ValidateIat(p, now) # None THEN ValidateIat(p, now)
    ELSE IF p.nbf # Absent /\ p.nbf > now THEN "ImmatureSignatureError"
    ELSE IF p.iss = None THEN "MissingRequiredClaimError"
    ELSE IF p.iss # OKTA_ISSUER THEN "InvalidIssuerError"
    ELSE IF p.aud = None THEN "MissingRequiredClaimError"
    ELSE IF p.aud # OKTA_AUDIENCE THEN "InvalidAudienceError"
    ELSE IF p.exp # Absent /\ p.exp <= now THEN "ExpiredSignatureError"
    ELSE None

ValidateClaimsRequireExp(p, now) ==
    IF ValidateIat(p, now) # None THEN ValidateIat(p, now)
    ELSE IF p.nbf # Absent /\ p.nbf > now THEN "ImmatureSignatureError"
    ELSE IF p.exp = Absent THEN "MissingRequiredClaimError"
    ELSE IF p.exp <= now THEN "ExpiredSignatureError"
    ELSE IF p.iss = None THEN "MissingRequiredClaimError"
    ELSE IF p.iss # OKTA_ISSUER THEN "InvalidIssuerError"
    ELSE IF p.aud = None THEN "MissingRequiredClaimError"
    ELSE IF p.aud # OKTA_AUDIENCE THEN "InvalidAudienceError"
    ELSE None

ValidateClaims(p, now) ==
    IF ValidateIat(p, now) # None THEN ValidateIat(p, now)
    ELSE IF p.nbf # Absent /\ p.nbf > now THEN "ImmatureSignatureError"
    ELSE IF p.exp # Absent /\ p.exp <= now THEN "ExpiredSignatureError"
    ELSE IF p.iss = None THEN "MissingRequiredClaimError"
    ELSE IF p.iss # OKTA_ISSUER THEN "InvalidIssuerError"
    ELSE IF p.aud = None THEN "MissingRequiredClaimError"
    ELSE IF p.aud # OKTA_AUDIENCE THEN "InvalidAudienceError"
    ELSE None

\* jwt.decode(token, public_key, algorithms=["RS256"], audience=, issuer=):
\* the algorithm of the header must be allowed, the signature must verify
\* under public_key, then the claims are validated. None: no error.
DecodeErrorNoSignature(tok, key, now) ==
    IF tok.alg # "RS256" THEN "InvalidAlgorithmError"
    ELSE ValidateClaims(tok.payload, now)

DecodeError(tok, key, now) ==
    IF tok.alg # "RS256" THEN "InvalidAlgorithmError"
    ELSE IF tok.sig # key THEN "InvalidSignatureError"
    ELSE ValidateClaims(tok.payload, now)

\* Lines 77-82: the scope check. "TypeError": `in` applied to a value that
\* is no container; "yes"/"no": whether REQUIRED_SCOPE is among the scopes.
Member(x, S) == IF x \in S THEN "yes" ELSE "no"

HasRequiredScopeAny(scp) ==
    IF scp.t = "absent" THEN "no"
    ELSE IF scp.t = "str" \/ scp.t = "list" THEN "yes"
    ELSE "TypeError"

HasRequiredScope(scp) ==
    IF scp.t = "absent" THEN "no"
    ELSE IF scp.t = "str" THEN Member(REQUIRED_SCOPE, Range(Split(scp.str)))
    ELSE IF scp.t = "list" THEN Member(REQUIRED_SCOPE, Range(scp.list))
    ELSE "TypeError"

\* verify_jwt_token followed by validate_token, for a token whose header
\* carries a kid that the key set holds (key: the key selected).
VerifyWithKey(tok, key, now) ==
    LET err == DecodeError(tok, key, now) IN
    IF err = "ExpiredSignatureError"
    THEN Outcome("ExpiredToken", HTTP_401_UNAUTHORIZED, err, NoPayload)
    ELSE IF err # None
    THEN Outcome("InvalidToken", HTTP_401_UNAUTHORIZED, err, NoPayload)
    ELSE LET has == HasRequiredScope(tok.payload.scp) IN
         IF has = "TypeError" THEN Outcome("ServerError", 500, "TypeError", NoPayload)
         ELSE IF has = "no"
         THEN Outcome("InsufficientScope", HTTP_403_FORBIDDEN, None, NoPayload)
         ELSE Outcome("OK", 200, None, tok.payload)

\* Lines 59-62: read the header without trust and take its kid. None: the
\* header was read and holds a kid.
HeaderError(tok) ==
    IF tok.form = "malformed"
    THEN Outcome("InvalidToken", HTTP_401_UNAUTHORIZED, "DecodeError", NoPayload)
    ELSE IF tok.kid = None
    THEN Outcome("ServerError", 500, "KeyError", NoPayload)
    ELSE Outcome("none", 0, None, NoPayload)

\* Lines 26-38 and 66-112: with the key set at hand, select the key and
\* verify; a kid the set does not hold is HTTPException(401).
VerifyJwt(tok, jwks, now) ==
    IF PublicKey(tok.kid, jwks) = None
    THEN Outcome("KeyNotFound", HTTP_401_UNAUTHORIZED, None, NoPayload)
    ELSE VerifyWithKey(tok, PublicKey(tok.kid, jwks), now)

NoOutcomeYet == Outcome("pending", 0, None, NoPayload)

JIdle ==
    /\ jpc = "idle"
    /\ jtoken = [form |-> "malformed", kid |-> None, alg |-> "RS256", sig |-> "forged",
                 payload |-> NoPayload]
    /\ jjwks = {}
    /\ jfetches = 0
    /\ jresult = NoOutcomeYet

JInit ==
    /\ jpc = "start"
    /\ jtoken \in JwtTokens
    /\ jjwks \in KeySets
    /\ jfetches = 0
    /\ jresult = NoOutcomeYet

\* Lines 53-65 and 22-25: read the header; a token that is no JWT, or whose
\* header has no kid, ends the request; otherwise GET the key set.
JReadHeader ==
    /\ jpc = "start"
    /\ IF HeaderError(jtoken).outcome # "none"
       THEN /\ jresult' = HeaderError(jtoken)
            /\ jpc' = "done"
            /\ UNCHANGED jfetches
       ELSE /\ jfetches' = jfetches + 1
            /\ jpc' = "await_keys"
            /\ UNCHANGED jresult
    /\ UNCHANGED <<jtoken, jjwks>>

\* Lines 26-38 and 66-112: the key set arrives; select the key, decode and
\* validate the token, check the scope, and answer the request.
JKeysFetched ==
    /\ jpc = "await_keys"
    /\ jresult' = VerifyJwt(jtoken, jjwks, ClockNow)
    /\ jpc' = "done"
    /\ UNCHANGED <<jtoken, jjwks, jfetches>>

----------------------------------------------------------------------------
(* authenticate_with_okta: authorization code + PKCE flow of the client *)

Verifiers == {"V" \o ToString(i) : i \in 1..NumVerifiers}
CsrfStates == {"st" \o ToString(i) : i \in 1..NumStates}
AuthCodes == {"code" \o ToString(i) : i \in 1..NumCodes}

\* base64url(sha256(verifier)) without padding: a value determined by the
\* verifier and different from it.
S256(verifier) == "S256(" \o verifier \o ")"

\* generate_pkce_pair(), for the bytes the generator yielded.
PkcePairPlain(verifier) == <<verifier, verifier>>

PkcePairStale(verifier) == <<verifier, S256("V1")>>

PkcePair(verifier) == <<verifier, S256(verifier)>>

\* Settings read by OktaOAuthProvider.__init__.
ProviderEnvs ==
    [domain : BOOLEAN, client_id : BOOLEAN, issuer : BOOLEAN, client_secret : BOOLEAN]

\* The constructor raises ValueError unless domain, client id and issuer
\* are set.
ProviderConstructs(env) == env.domain /\ env.client_id /\ env.issuer

RedirectUri == "http://localhost:3030/oauth/callback"
McpScope == "openid profile offline_access"

ClientSecret(env) == IF env.client_secret THEN "client-secret" ELSE None

\* f"{k}={v}" in the query string: None is written as the text "None".
UrlText(v) == IF v = None THEN "None" ELSE v

\* get_authorization_url(state, code_challenge): the URL and its query.
AuthorizationUrl(env, state, challenge) ==
    [kind |-> "authorize",
     url |-> "issuer/v1/authorize",
     client_id |-> "client-id",
     client_secret |-> UrlText(ClientSecret(env)),
     response_type |-> "code",
     scope |-> McpScope,
     redirect_uri |-> RedirectUri,
     state |-> state,
     code_challenge |-> challenge,
     code_challenge_method |-> "S256",
     grant_type |-> None,
     code |-> None,
     code_verifier |-> None]

\* The POST of exchange_code_for_tokens(code, code_verifier).
CodeExchangePost(env, code, verifier) ==
    [kind |-> "token",
     url |-> "issuer/v1/token",
     client_id |-> "client-id",
     client_secret |-> ClientSecret(env),
     response_type |-> None,
     scope |-> None,
     redirect_uri |-> RedirectUri,
     state |-> None,
     code_challenge |-> None,
     code_challenge_method |-> None,
     grant_type |-> "authorization_code",
     code |-> code,
     code_verifier |-> verifier]

\* A GET on the callback port: query parameters code and state, each
\* possibly missing.
CallbackRequests == [code : {None} \cup AuthCodes, state : {None} \cup CsrfStates]

NoRequest == [code |-> None, state |-> None]

\* The token endpoint's answer to the code exchange.
CodeExchangeResponses ==
    [status : {200, 400},
     body : {[kind |-> "text", access_token |-> None, refresh_token |-> None]}
            \cup [kind : {"object"}, access_token : {None} \cup IssuedTokens,
                  refresh_token : {None, "refresh-1"}]]

\* No response text (an exception that quotes no response).
NoBody == [kind |-> "none", access_token |-> None, refresh_token |-> None]

\* No answer from the token endpoint yet.
NoResponse == [status |-> 0, body |-> NoBody]

NoTokens == [kind |-> "none", access_token |-> None, refresh_token |-> None,
             error |-> None, status |-> 0, body |-> NoBody]
Tokens(body) == [kind |-> "tokens", access_token |-> body.access_token,
                 refresh_token |-> body.refresh_token, error |-> None, status |-> 0,
                 body |-> NoBody]
Failure(e, status) == [kind |-> "error", access_token |-> None, refresh_token |-> None,
                       error |-> e, status |-> status, body |-> NoBody]
\* Exception(f"Token exchange failed: {status_code} {text}")
ExchangeFailure(resp) ==
    [kind |-> "error", access_token |-> None, refresh_token |-> None,
     error |-> "Token exchange failed", status |-> resp.status, body |-> resp.body]

\* Lines 92-105 of the provider: a non-200 answer raises with status and
\* body; a 200 answer must be a JSON object with an access_token.
CodeExchangeResultAnyStatus(resp) ==
    IF resp.body.kind = "text" THEN Failure("JSONDecodeError", 0)
    ELSE IF resp.body.access_token = None THEN Failure("KeyError", 0)
    ELSE Tokens(resp.body)

CodeExchangeResult(resp) ==
    IF resp.status # 200 THEN ExchangeFailure(resp)
    ELSE IF resp.body.kind = "text" THEN Failure("JSONDecodeError", 0)
    ELSE IF resp.body.access_token = None THEN Failure("KeyError", 0)
    ELSE Tokens(resp.body)

\* Line 247: the returned state must be the generated one.
StateAcceptedIfMissing(received, generated) == received = None \/ received = generated

StateAccepted(received, generated) == received = generated

TokenPosts == {i \in 1..Len(csent) : csent[i].kind = "token"}

\* do_GET line 110: `"code" in query_params`.
HasCodeAlways(req) == TRUE

HasCode(req) == req.code # None

\* wait_for_callback line 200: the truth value of server.auth_code.
CodeSeenAlways(code) == TRUE

CodeSeen(code) == code # None /\ code # ""

CIdle ==
    /\ cpc = "idle"
    /\ cenv = [domain |-> TRUE, client_id |-> TRUE, issuer |-> TRUE, client_secret |-> TRUE]
    /\ cverifier = None /\ cchallenge = None /\ cstate = None
    /\ srunning = FALSE /\ scode = None /\ sstate = None
    /\ hpc = "idle" /\ hreq = NoRequest
    /\ chandled = <<>>
    /\ cpolls = 0
    /\ cgotcode = None /\ cgotstate = None
    /\ csent = <<>>
    /\ cresp = NoResponse
    /\ cpending = NoTokens
    /\ cresult = NoTokens

CInit ==
    /\ cpc = "start"
    /\ cenv \in ProviderEnvs
    /\ cverifier = None /\ cchallenge = None /\ cstate = None
    /\ srunning = FALSE /\ scode = None /\ sstate = None
    /\ hpc = "idle" /\ hreq = NoRequest
    /\ chandled = <<>>
    /\ cpolls = 0
    /\ cgotcode = None /\ cgotstate = None
    /\ csent = <<>>
    /\ cresp = NoResponse
    /\ cpending = NoTokens
    /\ cresult = NoTokens

\* Lines 213-218: generate the PKCE pair and the state, start the listener
\* (auth_code and state None) on its own thread.
CBegin ==
    /\ cpc = "start"
    /\ \E v \in Verifiers, st \in CsrfStates :
        /\ cverifier' = PkcePair(v)[1]
        /\ cchallenge' = PkcePair(v)[2]
        /\ cstate' = st
    /\ srunning' = TRUE
    /\ scode' = None
    /\ sstate' = None
    /\ cpc' = "provider"
    /\ UNCHANGED <<cresp, cenv, hpc, hreq, chandled, cpolls, cgotcode, cgotstate, csent,
                   cpending, cresult>>

\* Lines 221-222: construct the provider. This is before the try block: a
\* ValueError of the constructor leaves authenticate_with_okta at once.
CProviderError ==
    /\ cpc = "provider"
    /\ ~ProviderConstructs(cenv)
    /\ cresult' = Failure("ValueError", 0)
    /\ cpc' = "failed"
    /\ UNCHANGED <<cresp, cenv, cverifier, cchallenge, cstate, srunning, scode, sstate, hpc,
                   hreq, chandled, cpolls, cgotcode, cgotstate, csent, cpending>>

\* Lines 222-245: build the authorization URL, open it in the browser and
\* enter wait_for_callback.
COpenBrowser ==
    /\ cpc = "provider"
    /\ ProviderConstructs(cenv)
    /\ csent' = Append(csent, AuthorizationUrl(cenv, cstate, cchallenge))
    /\ cpc' = "poll"
    /\ UNCHANGED <<cresp, cenv, cverifier, cchallenge, cstate, srunning, scode, sstate, hpc,
                   hreq, chandled, cpolls, cgotcode, cgotstate, cpending, cresult>>

\* CallbackHandler.do_GET, lines 84-111 and 127-136: a request arrives at
\* the serving listener. With a code the handler stores it in
\* server.auth_code; without one it answers 400.
HReceive ==
    /\ srunning
    /\ hpc = "idle"
    /\ Len(chandled) < MaxCallbacks
    /\ \E req \in CallbackRequests :
        IF HasCode(req)
        THEN /\ scode' = req.code
             /\ hreq' = req
             /\ hpc' = "writing"
             /\ UNCHANGED chandled
        ELSE /\ chandled' = Append(chandled, 400)
             /\ UNCHANGED <<scode, hreq, hpc>>
    /\ UNCHANGED <<cresp, cpc, cenv, cverifier, cchallenge, cstate, srunning, sstate, cpolls,
                   cgotcode, cgotstate, csent, cpending, cresult>>

\* do_GET, line 112: store the state parameter (None when missing) in
\* server.state.
HStoreState ==
    /\ hpc = "writing"
    /\ sstate' = hreq.state
    /\ hpc' = "answering"
    /\ UNCHANGED <<cresp, cpc, cenv, cverifier, cchallenge, cstate, srunning, scode, cpolls,
                   hreq, chandled, cgotcode, cgotstate, csent, cpending, cresult>>

\* do_GET, lines 114-126: send the 200 answer and its page; the request
\* is over.
HAnswer ==
    /\ hpc = "answering"
    /\ chandled' = Append(chandled, 200)
    /\ hreq' = NoRequest
    /\ hpc' = "idle"
    /\ UNCHANGED <<cresp, cpc, cenv, cverifier, cchallenge, cstate, srunning, scode, sstate,
                   cpolls, cgotcode, cgotstate, csent, cpending, cresult>>

\* wait_for_callback, lines 194-204: within the timeout and with no code
\* yet, sleep and look again.
CPollSleep ==
    /\ cpc = "poll"
    /\ ~CodeSeen(scode)
    /\ cpolls < MaxPolls
    /\ cpolls' = cpolls + 1
    /\ UNCHANGED <<cresp, cpc, cenv, cverifier, cchallenge, cstate, srunning, scode, sstate,
                   hpc, hreq, chandled, cgotcode, cgotstate, csent, cpending, cresult>>

\* Line 200: within the timeout, server.auth_code is seen to be set.
CPollSeen ==
    /\ cpc = "poll"
    /\ CodeSeen(scode)
    /\ cpc' = "read_code"
    /\ UNCHANGED <<cresp, cenv, cverifier, cchallenge, cstate, srunning, scode, sstate, hpc,
                   hreq, chandled, cpolls, cgotcode, cgotstate, csent, cpending, cresult>>

\* Lines 194 and 206: the timeout has elapsed when the loop condition is
\* evaluated again; TimeoutError leaves the try block.
CTimeout ==
    /\ cpc = "poll"
    /\ cpolls >= 1
    /\ cpending' = Failure("TimeoutError", 0)
    /\ cpc' = "finally"
    /\ UNCHANGED <<cresp, cenv, cverifier, cchallenge, cstate, srunning, scode, sstate, hpc,
                   hreq, chandled, cpolls, cgotcode, cgotstate, csent, cresult>>

\* Line 203, first element of the returned pair: read server.auth_code.
CReadCode ==
    /\ cpc = "read_code"
    /\ cgotcode' = scode
    /\ cpc' = "read_state"
    /\ UNCHANGED <<cresp, cenv, cverifier, cchallenge, cstate, srunning, scode, sstate, hpc,
                   hreq, chandled, cpolls, cgotstate, csent, cpending, cresult>>

\* Line 203, second element: read server.state; wait_for_callback returns.
CReadState ==
    /\ cpc = "read_state"
    /\ cgotstate' = sstate
    /\ cpc' = "check_state"
    /\ UNCHANGED <<cresp, cenv, cverifier, cchallenge, cstate, srunning, scode, sstate, hpc,
                   hreq, chandled, cpolls, cgotcode, csent, cpending, cresult>>

\* Lines 247-248: a state other than the generated one raises ValueError.
CStateMismatch ==
    /\ cpc = "check_state"
    /\ ~StateAccepted(cgotstate, cstate)
    /\ cpending' = Failure("Invalid state parameter - possible CSRF attack", 0)
    /\ cpc' = "finally"
    /\ UNCHANGED <<cresp, cenv, cverifier, cchallenge, cstate, srunning, scode, sstate, hpc,
                   hreq, chandled, cpolls, cgotcode, cgotstate, csent, cresult>>

\* Lines 250-254 and provider lines 57-90: the state matches; POST the
\* code, the verifier and the redirect URI to the token endpoint.
CExchange ==
    /\ cpc = "check_state"
    /\ StateAccepted(cgotstate, cstate)
    /\ csent' = Append(csent, CodeExchangePost(cenv, cgotcode, cverifier))
    /\ cpc' = "exchanging"
    /\ UNCHANGED <<cresp, cenv, cverifier, cchallenge, cstate, srunning, scode, sstate, hpc,
                   hreq, chandled, cpolls, cgotcode, cgotstate, cpending, cresult>>

\* Provider lines 92-105: the token endpoint answers.
CTokenResponse ==
    /\ cpc = "exchanging"
    /\ \E resp \in CodeExchangeResponses :
        /\ cresp' = resp
        /\ cpending' = CodeExchangeResult(resp)
    /\ cpc' = "finally"
    /\ UNCHANGED <<cenv, cverifier, cchallenge, cstate, srunning, scode, sstate, hpc,
                   hreq, chandled, cpolls, cgotcode, cgotstate, csent, cresult>>

\* The terminal state of the flow: Complete when the try block returned
\* tokens, Failed when it raised.
TerminalAlwaysComplete(pending) == "complete"

Terminal(pending) == IF pending.kind = "tokens" THEN "complete" ELSE "failed"

\* Lines 259-260: callback_server.shutdown() waits for the request in
\* progress, stops the listener, and the outcome of the try block stands.
CFinally ==
    /\ cpc = "finally"
    /\ hpc = "idle"
    /\ srunning' = FALSE
    /\ cresult' = cpending
    /\ cpc' = Terminal(cpending)
    /\ UNCHANGED <<cresp, cenv, cverifier, cchallenge, cstate, scode, sstate, hpc, hreq,
                   chandled, cpolls, cgotcode, cgotstate, csent, cpending>>

----------------------------------------------------------------------------
(* Claims about authenticate_with_okta *)

\* wait_for_callback has returned its (code, state) pair.
CallbackReturned == cgotcode # None /\ cpc # "read_state"

CsrfError == Failure("Invalid state parameter - possible CSRF attack", 0)

\* C1: if the state returned by the callback differs from the state
\* generated for the attempt (a callback without any state included), the
\* flow is on its way to failure with the CSRF error and no POST to the
\* token endpoint is ever made in the attempt; a token POST is only ever
\* made with the returned state equal to the generated one.
C1_NoTokenPostOnStateMismatch ==
    /\ (CallbackReturned /\ cgotstate # cstate) =>
          /\ TokenPosts = {}
          /\ cpc \in {"check_state", "finally", "failed"}
          /\ cpc = "finally" => cpending = CsrfError
          /\ cpc = "failed" => cresult = CsrfError
    /\ TokenPosts # {} => (CallbackReturned /\ cgotstate = cstate)

C1_Witness ==
    /\ cpc = "failed"
    /\ CallbackReturned
    /\ cgotstate = None
    /\ cresult = CsrfError
    /\ TokenPosts = {}
    /\ ~srunning

\* The statement of C15: once the flow has reached a terminal state,
\* Complete or Failed by whatever way, the callback listener it started has
\* been shut down.
C15_ListenerDownAtTerminal ==
    cpc \in {"complete", "failed"} => ~srunning

\* wait_for_callback was entered and has ended, by return or by exception.
WaitEnded ==
    cpc \in {"read_code", "read_state", "check_state", "exchanging", "finally",
             "complete", "failed"} /\ csent # <<>>

CallbackTimeout == Failure("TimeoutError", 0)

\* The listener has received a request carrying a code.
CodeBearingReceived ==
    hpc # "idle" \/ \E i \in 1..Len(chandled) : chandled[i] = 200

C16_Safety ==
    /\ WaitEnded => (cpending = CallbackTimeout \/ scode \in AuthCodes)
    /\ (WaitEnded /\ ~CodeBearingReceived) =>
          /\ cpending = CallbackTimeout
          /\ cpc = "failed" => cresult = CallbackTimeout
    /\ cpending = CallbackTimeout => (cpolls >= 1 /\ cgotcode = None)
    /\ cgotcode # None => (cgotcode \in AuthCodes /\ CodeBearingReceived)

\* C16: wait_for_callback always terminates; when it has ended without any
\* code-bearing callback having reached the listener it has failed with the
\* callback timeout (raised only once time has passed), and the code it
\* returns is one a code-bearing callback delivered before it returned.
C16_WaitTerminates ==
    /\ []C16_Safety
    /\ (cpc = "poll") ~> (cpc # "poll")

C16_Witness ==
    /\ cpc = "failed"
    /\ cresult = CallbackTimeout
    /\ scode = None
    /\ cpolls >= 1
    /\ ~srunning

\* The statement of C17: once a code-bearing request has been served (it
\* was answered 200), the listener serves no further request: the served
\* code-bearing request is the last request of the attempt and no request
\* is being handled after it.
C17_SingleRequest ==
    \A i \in 1..Len(chandled) :
        chandled[i] = 200 => (i = Len(chandled) /\ hpc = "idle")

\* C18: a callback request without a code parameter is never taken into
\* the storing branch of the handler; it is answered 400, and the step that
\* answers it leaves server.auth_code, server.state, the position of the
\* main task (still waiting) and the listener as they were.
C18_NoCodeRequest ==
    /\ [](hpc # "idle" => hreq.code \in AuthCodes)
    /\ [][(/\ Len(chandled') = Len(chandled) + 1
           /\ chandled'[Len(chandled')] = 400) =>
             /\ scode' = scode
             /\ sstate' = sstate
             /\ cpc' = cpc
             /\ srunning' = srunning
             /\ cgotcode' = cgotcode
             /\ cgotstate' = cgotstate
             /\ cpending' = cpending]_vars

\* The flow completes on a code-bearing callback that follows one without
\* a code.
C18_Witness ==
    /\ cpc = "complete"
    /\ chandled = <<400, 200>>
    /\ cresult.kind = "tokens"

\* C19: the code exchange makes exactly one POST, carrying the code
\* returned by the callback, the verifier and the redirect URI; a non-200
\* answer fails with the code-exchange error carrying the answer's status
\* and body; a 200 answer (a JSON object with an access_token) yields the
\* tokens of the body, and nothing else does.
C19_CodeExchange ==
    /\ Cardinality(TokenPosts) <= 1
    /\ cpc = "exchanging" => Cardinality(TokenPosts) = 1
    /\ cresp # NoResponse => Cardinality(TokenPosts) = 1
    /\ \A i \in TokenPosts :
          /\ csent[i].grant_type = "authorization_code"
          /\ csent[i].code = cgotcode
          /\ csent[i].code \in AuthCodes
          /\ csent[i].code_verifier = cverifier
          /\ csent[i].redirect_uri = RedirectUri
    /\ (cresp # NoResponse /\ cresp.status # 200) =>
          /\ cpending.kind = "error"
          /\ cpending.error = "Token exchange failed"
          /\ cpending.status = cresp.status
          /\ cpending.body = cresp.body
    /\ (cresp.status = 200 /\ cresp.body.kind = "object"
          /\ cresp.body.access_token # None) =>
          /\ cpending.kind = "tokens"
          /\ cpending.access_token = cresp.body.access_token
          /\ cpending.refresh_token = cresp.body.refresh_token
    /\ cpending.kind = "tokens" => (cresp.status = 200 /\ cresp.body.access_token # None)
    /\ cpc = "complete" => cresult = cpending

C19_Witness ==
    /\ cpc = "failed"
    /\ cresp.status = 400
    /\ cresp.body.kind = "object"
    /\ cresp.body.access_token \in IssuedTokens
    /\ cresult.error = "Token exchange failed"
    /\ cresult.status = 400

\* The statement of C20 as claimed: in no request sent during the attempt,
\* the authorization URL or the token POST, does the code_verifier appear.
C20_VerifierNeverSent ==
    \A i \in 1..Len(csent) :
        /\ csent[i].code_verifier # cverifier
        /\ csent[i].code_challenge # cverifier

\* C20 (amended): the authorization URL carries the S256 challenge of the
\* verifier and never the verifier itself; the verifier is sent only in
\* the POST to the token endpoint, which is made only after the callback
\* returned the generated state.
C20_VerifierOnlyInTokenPost ==
    \A i \in 1..Len(csent) :
        /\ csent[i].kind = "authorize" =>
              /\ csent[i].code_verifier = None
              /\ csent[i].code_challenge = S256(cverifier)
              /\ csent[i].code_challenge # cverifier
              /\ csent[i].state # cverifier
        /\ csent[i].kind = "token" =>
              /\ csent[i].code_verifier = cverifier
              /\ csent[i].url = "issuer/v1/token"
              /\ CallbackReturned /\ cgotstate = cstate

C20_Witness ==
    /\ Len(csent) = 2
    /\ csent[1].kind = "authorize"
    /\ csent[1].code_challenge = S256(cverifier)
    /\ csent[2].kind = "token"
    /\ csent[2].code_verifier = cverifier

\* C21: within one attempt one code_verifier is generated and kept; the
\* code_challenge of the authorization URL is its S256 transform (method
\* S256), and the verifier presented in the code exchange is that same
\* verifier, the one the URL's challenge was derived from.
C21_PkceBinding ==
    /\ [](cverifier # None => cverifier \in Verifiers)
    /\ [](\A i \in 1..Len(csent) :
            /\ csent[i].kind = "authorize" =>
                  /\ csent[i].code_challenge = S256(cverifier)
                  /\ csent[i].code_challenge_method = "S256"
            /\ csent[i].kind = "token" =>
                  /\ csent[i].code_verifier = cverifier
                  /\ \A j \in 1..Len(csent) :
                        csent[j].kind = "authorize" =>
                            csent[j].code_challenge = S256(csent[i].code_verifier))
    /\ [][cverifier # None => cverifier' = cverifier]_vars

C21_Witness ==
    /\ cpc = "complete"
    /\ cverifier = "V2"
    /\ Len(csent) = 2
    /\ csent[1].code_challenge = S256("V2")
    /\ csent[2].code_verifier = "V2"

\* The state of the flow's state machine at a position of the main task;
\* Finishing: the finally clause is running on the way to Complete or
\* Failed.
PhaseOf(pc) ==
    CASE pc \in {"idle", "start"} -> "Idle"
      [] pc \in {"provider", "poll"} -> "AwaitingCallback"
      [] pc \in {"read_code", "read_state", "check_state"} -> "CodeReceived"
      [] pc = "exchanging" -> "Exchanging"
      [] pc = "finally" -> "Finishing"
      [] pc = "complete" -> "Complete"
      [] pc = "failed" -> "Failed"

FlowTransitions ==
    {<<"Idle", "AwaitingCallback">>, <<"AwaitingCallback", "CodeReceived">>,
     <<"CodeReceived", "Exchanging">>, <<"Exchanging", "Finishing">>,
     <<"AwaitingCallback", "Finishing">>, <<"CodeReceived", "Finishing">>,
     <<"AwaitingCallback", "Failed">>,
     <<"Finishing", "Complete">>, <<"Finishing", "Failed">>}

\* C24: the flow only moves along Idle -> AwaitingCallback -> CodeReceived
\* -> Exchanging -> Complete | Failed; the token POST is made only after a
\* code was returned and its state found equal to the generated one;
\* Complete is reached only after a 200 answer to the token POST; and once
\* Complete or Failed is reached the flow takes no further step.
C24_FlowOrder ==
    /\ [][PhaseOf(cpc') = PhaseOf(cpc)
            \/ <<PhaseOf(cpc), PhaseOf(cpc')>> \in FlowTransitions]_vars
    /\ [](TokenPosts # {} =>
            (cgotcode \in AuthCodes /\ cgotstate = cstate /\ cstate \in CsrfStates))
    /\ [](cpc = "exchanging" => TokenPosts # {})
    /\ [](cpc = "complete" =>
            (TokenPosts # {} /\ cresp.status = 200 /\ cresult.kind = "tokens"))
    /\ [][(cpc \in {"complete", "failed"}) =>
            (UNCHANGED <<cpc, cverifier, cchallenge, cstate, cpolls, cgotcode,
                         cgotstate, csent, cresp, cpending, cresult>>)]_vars

C24_Witness ==
    /\ cpc = "complete"
    /\ cresp.status = 200
    /\ cgotstate = cstate
    /\ cpolls >= 1
    /\ ~srunning

\* The number of code-bearing requests that have reached the listener.
CodeBearingCount ==
    Cardinality({i \in 1..Len(chandled) : chandled[i] = 200})
        + (IF hpc # "idle" THEN 1 ELSE 0)

\* The statement of C25, for attempts in which one code-bearing request
\* has reached the listener: the (code, state) pair wait_for_callback
\* returned is the pair of that request, under every interleaving of the
\* listener thread with the main task.
C25_PairFromOneRequest ==
    (CallbackReturned /\ cpc = "check_state" /\ CodeBearingCount = 1) =>
        /\ cgotcode = scode
        /\ cgotstate = (IF hpc # "idle" THEN hreq.state ELSE sstate)

\* The statement of C26: the authorization URL carries neither the
\* client secret nor the code_verifier.
C26_UrlWithoutSecret ==
    \A i \in 1..Len(csent) :
        csent[i].kind = "authorize" =>
            /\ csent[i].client_secret # "client-secret"
            /\ csent[i].code_verifier = None
            /\ csent[i].code_challenge # cverifier

----------------------------------------------------------------------------
(* Claims about exchange_token *)

\* The nonce challenge as the protocol defines it: status 400 and a JSON
\* object body whose error code is use_dpop_nonce.
IsChallenge(resp) ==
    /\ resp.status = 400
    /\ resp.body.kind = "object"
    /\ resp.body.error = "use_dpop_nonce"

\* A successful token response: status 200 with an access_token member.
IsSuccess(resp) ==
    /\ resp.status = 200
    /\ resp.body.kind = "object"
    /\ resp.body.access_token # None

\* C2: when the first POST is answered 400/use_dpop_nonce with DPoP-Nonce
\* N, exactly one further POST is made, only after the first response was
\* received (never two requests outstanding), its proof carries nonce N,
\* and if the retry succeeds the call returns the retry's access_token.
C2_NonceRetry ==
    /\ Len(xposts) <= Len(xresps) + 1
    /\ (Len(xresps) >= 1 /\ IsChallenge(xresps[1]) /\ xresps[1].nonce \in Nonces) =>
          /\ Len(xposts) = 2
          /\ xposts[2].dpop.nonce = xresps[1].nonce
          /\ (Len(xresps) = 2 /\ IsSuccess(xresps[2])) =>
                xresult = Returned(xresps[2].body.access_token)

C2_Witness ==
    /\ xpc = "done"
    /\ Len(xresps) = 2
    /\ IsChallenge(xresps[1]) /\ xresps[1].nonce \in Nonces
    /\ IsSuccess(xresps[2])
    /\ xresult.kind = "return"
    /\ xresps[1].body.access_token # xresps[2].body.access_token

\* C3: a first response 400/use_dpop_nonce without a DPoP-Nonce header
\* (absent, or empty) fails the call with the missing-nonce error and no
\* second POST is sent.
C3_MissingNonce ==
    (Len(xresps) >= 1 /\ IsChallenge(xresps[1]) /\ xresps[1].nonce \notin Nonces) =>
        /\ xpc = "done"
        /\ xresult = Raised("DPoP nonce not found in response")
        /\ Len(xposts) = 1
        /\ Len(xresps) = 1

C3_Witness ==
    /\ xpc = "done"
    /\ Len(xresps) = 1
    /\ IsChallenge(xresps[1]) /\ xresps[1].nonce = None
    /\ xresult.kind = "raise"

\* C4: one call sends at most two POSTs, the second only when the first
\* response was the 400/use_dpop_nonce challenge; every other non-success
\* first response, and every non-success response to the retry (a second
\* challenge included), ends the call in failure with no further POST.
C4_SingleRetry ==
    /\ Len(xposts) <= 2
    /\ Len(xposts) = 2 => (Len(xresps) >= 1 /\ IsChallenge(xresps[1]))
    /\ (Len(xresps) >= 1 /\ xresps[1].status >= 400 /\ ~IsChallenge(xresps[1])) =>
          (xpc = "done" /\ xresult.kind = "raise" /\ Len(xposts) = 1)
    /\ (Len(xresps) = 2 /\ xresps[2].status >= 400) =>
          (xpc = "done" /\ xresult.kind = "raise" /\ Len(xposts) = 2)

C4_Witness ==
    /\ xpc = "done"
    /\ Len(xresps) = 2
    /\ IsChallenge(xresps[2]) /\ xresps[2].nonce \in Nonces
    /\ Len(xposts) = 2
    /\ xresult.kind = "raise"

\* C5: every non-success response (status >= 400, any body) that is not a
\* nonce challenge makes the call raise an HTTP error carrying the status
\* and body of that response.
C5_HttpErrorAlways ==
    /\ (Len(xresps) >= 1 /\ xresps[1].status >= 400 /\ ~IsChallenge(xresps[1])) =>
          xresult = RaisedHTTPError(xresps[1])
    /\ (Len(xresps) = 2 /\ xresps[2].status >= 400 /\ ~IsChallenge(xresps[2])) =>
          xresult = RaisedHTTPError(xresps[2])

\* C22: one call generates one DPoP key pair, before its first POST, and
\* every proof of the call, the first and the retry's, embeds that public
\* key and is signed with that private key.
C22_OneKeyPair ==
    /\ xkeygens <= 1
    /\ xposts # <<>> => (xkeygens = 1 /\ xkey \in 1..NumKeys)
    /\ xposts = <<>> => xkeygens = 0
    /\ \A i \in 1..Len(xposts) :
          /\ xposts[i].dpop.jwk = xkey
          /\ xposts[i].dpop.signed_by = xkey
    /\ Len(xposts) = 2 =>
          /\ xposts[2].dpop.jwk = xposts[1].dpop.jwk
          /\ xposts[2].dpop.signed_by = xposts[1].dpop.signed_by

C22_Witness ==
    /\ xpc = "done"
    /\ Len(xposts) = 2
    /\ xkey = 2
    /\ xposts[2].dpop.jwk = 2
    /\ xposts[2].dpop.nonce \in Nonces

\* C23: every POST carries a proof of its own: the retry's jti differs
\* from the first proof's, each proof names the method POST and the URL its
\* request is posted to, the first proof carries no nonce, and the retry's
\* proof carries the nonce the server supplied with the first response.
C23_FreshProofs ==
    /\ \A i \in 1..Len(xposts) :
          /\ xposts[i].dpop.htm = "POST"
          /\ xposts[i].dpop.htu = xposts[i].url
          /\ xposts[i].dpop.nonce # None =>
                /\ i = 2
                /\ xposts[i].dpop.nonce \in Nonces
                /\ xposts[i].dpop.nonce = xresps[1].nonce
    /\ xposts # <<>> => xposts[1].dpop.nonce = None
    /\ Len(xposts) = 2 =>
          /\ xposts[2].dpop.jti # xposts[1].dpop.jti
          /\ xposts[2].dpop # xposts[1].dpop

C23_Witness ==
    /\ Len(xposts) = 2
    /\ xposts[1].dpop.nonce = None
    /\ xposts[2].dpop.nonce = "N2"
    /\ xposts[1].dpop.jti = 1
    /\ xposts[2].dpop.jti = 2

\* C27: the retry changes only the DPoP header: URL, form body (grant type
\* token-exchange, the caller's token as subject_token, the token types,
\* the target scope and audience) and client credentials of the second
\* POST are those of the first.
C27_RetryFrame ==
    /\ \A i \in 1..Len(xposts) :
          /\ xposts[i].data.grant_type =
                "urn:ietf:params:oauth:grant-type:token-exchange"
          /\ xposts[i].data.subject_token = xsubject
          /\ xposts[i].data.subject_token_type =
                "urn:ietf:params:oauth:token-type:access_token"
          /\ xposts[i].data.requested_token_type =
                "urn:ietf:params:oauth:token-type:access_token"
          /\ xposts[i].auth = <<"client_id", "client_secret">>
    /\ Len(xposts) = 2 =>
          /\ xposts[2].url = xposts[1].url
          /\ xposts[2].data = xposts[1].data
          /\ xposts[2].auth = xposts[1].auth
          /\ xposts[2].dpop # xposts[1].dpop

C27_Witness ==
    /\ xpc = "done"
    /\ Len(xposts) = 2
    /\ xsubject = "S2"
    /\ xposts[2].data.subject_token = "S2"
    /\ xposts[2].data = xposts[1].data
    /\ xresult.kind = "return"

----------------------------------------------------------------------------
(* Claims about call_third_party_api *)

\* exchange_token has returned a token.
ExchangeSucceeded == xpc = "done" /\ xresult.kind = "return"

\* C28: the downstream API is requested at most once and only after
\* exchange_token has returned; the bearer sent is the token exchange_token
\* returned (the access_token of the last token response), never the
\* caller's token; with no token in the context, or a failed exchange, no
\* downstream request is made and the tool raises.
C28_DownstreamAfterExchange ==
    /\ Len(tdown) <= 1
    /\ tdown # <<>> =>
          /\ ExchangeSucceeded
          /\ tctx \in SubjectTokens
          /\ xsubject = tctx
          /\ tdown[1].url = ThirdPartyApiUrl
          /\ tdown[1].authorization = "Bearer " \o xresult.value
          /\ tdown[1].authorization =
                "Bearer " \o xresps[Len(xresps)].body.access_token
          /\ tdown[1].authorization # "Bearer " \o tctx
    /\ tpc = "await_api" => Len(tdown) = 1
    /\ (tctx = None \/ ~ExchangeSucceeded) => tdown = <<>>
    /\ (tpc = "done" /\ tctx = None) => (xpc = "idle" /\ xposts = <<>>)
    /\ (tpc = "done" /\ (tctx = None \/ ~ExchangeSucceeded)) => tresult.kind = "raise"

C28_Witness ==
    /\ tpc = "done"
    /\ Len(xposts) = 2
    /\ ExchangeSucceeded
    /\ Len(tdown) = 1
    /\ tdown[1].authorization = "Bearer T2"
    /\ tresult.kind = "return"

----------------------------------------------------------------------------
(* Claims about OktaTokenVerifier.verify_token *)

\* The introspection POST was answered (no transport error) with a JSON
\* object body.
AnsweredObject == ioutcome.error = None /\ ioutcome.body.kind = "object"

\* C6: verify_token returns an AccessToken (for the presented token) if
\* and only if the endpoint answered 200 with a body whose active member is
\* true; for a non-200 status, or active false, null or absent, it returns
\* None, the very result a transport error gives.
C6_AccessTokenIffActive ==
    (ipc = "done" /\ isent = 1) =>
        LET granted == /\ AnsweredObject
                       /\ ioutcome.status = 200
                       /\ ioutcome.body.fields.active = [t |-> "bool", b |-> TRUE]
        IN /\ (iresult.kind = "AccessToken") <=> granted
           /\ granted => iresult.token = itoken
           /\ ~granted => iresult = VerifyTokenResult(itoken,
                   [error |-> "ConnectError", status |-> 0,
                    body |-> [kind |-> "text", fields |-> NoFields]])
           /\ ~granted => iresult.kind = "None"

C6_Witness ==
    /\ ipc = "done"
    /\ isent = 1
    /\ AnsweredObject
    /\ ioutcome.status = 200
    /\ ioutcome.body.fields.active = [t |-> "bool", b |-> TRUE]
    /\ ioutcome.body.fields.client_id.t = "str"
    /\ iresult.kind = "AccessToken"

\* C7: verify_token never propagates an exception: whatever the outcome of
\* the introspection call (transport failure, timeout, unparsable body,
\* unexpected field types), the caller receives an AccessToken or None.
C7_NeverRaises ==
    /\ iresult.kind # "raise"
    /\ ipc = "done" => iresult.kind \in {"AccessToken", "None"}

C7_Witness ==
    /\ ipc = "done"
    /\ ioutcome.error = None
    /\ ioutcome.status = 200
    /\ ioutcome.body.kind = "array"
    /\ iresult = ReturnsNone

----------------------------------------------------------------------------
(* Claims about verify_jwt_token *)

\* The scope member names `name`: as an item of the list, or as a maximal
\* run of non-space characters of the string.
NamesScope(scp, name) ==
    \/ /\ scp.t = "list"
       /\ \E i \in 1..Len(scp.list) : scp.list[i] = name
    \/ /\ scp.t = "str"
       /\ \E i \in 1..Len(scp.str) :
            LET j == i + Len(name) - 1 IN
            /\ j <= Len(scp.str)
            /\ SubSeq(scp.str, i, j) = name
            /\ (i = 1 \/ scp.str[i - 1] = " ")
            /\ (j = Len(scp.str) \/ scp.str[j + 1] = " ")

\* The signature verifies under the key the token's kid selects.
SignatureVerified ==
    /\ jtoken.form = "jwt"
    /\ jtoken.kid \in jjwks
    /\ jtoken.alg = "RS256"
    /\ jtoken.sig = jtoken.kid

Expired == jtoken.payload.exp # Absent /\ jtoken.payload.exp <= ClockNow

\* C8: no partial trust: a payload is returned only when the signature
\* verified under the key selected by the token's kid, issuer and audience
\* are the configured ones, the expiry has not passed and the required
\* scope is present; in every other case the request is rejected (401, 403
\* or 500) and no claims reach the endpoint.
C8_NoPartialTrust ==
    jpc = "done" =>
        IF jresult.outcome = "OK"
        THEN /\ SignatureVerified
             /\ jtoken.payload.iss = OKTA_ISSUER
             /\ jtoken.payload.aud = OKTA_AUDIENCE
             /\ ~Expired
             /\ NamesScope(jtoken.payload.scp, REQUIRED_SCOPE)
             /\ jresult.status = 200
             /\ jresult.payload = jtoken.payload
        ELSE /\ jresult.status \in {401, 403, 500}
             /\ jresult.payload = NoPayload

\* A token signed by a key of the set other than the one its kid names is
\* rejected although every claim is in order.
C8_Witness ==
    /\ jpc = "done"
    /\ jtoken.form = "jwt"
    /\ jtoken.kid \in jjwks /\ jtoken.sig \in jjwks /\ jtoken.sig # jtoken.kid
    /\ jtoken.alg = "RS256"
    /\ jtoken.payload.iss = OKTA_ISSUER /\ jtoken.payload.aud = OKTA_AUDIENCE
    /\ ~Expired
    /\ NamesScope(jtoken.payload.scp, REQUIRED_SCOPE)
    /\ jresult.outcome = "InvalidToken"

\* The statement of C9 as claimed, for the tokens that carry a key id:
\* every token whose expiry is in the past, whatever its signature, issuer,
\* audience or key id, fails with ExpiredToken.
C9_ExpiredAlways ==
    (jpc = "done" /\ jtoken.kid # None /\ Expired) => jresult.outcome = "ExpiredToken"

\* C9 (amended): every token whose expiry is in the past and which passes
\* the checks made before the expiry check (its kid is in the key set, its
\* algorithm is RS256, its signature verifies under that key, its iat is
\* an integer not in the future, its nbf is not in the future) fails with
\* ExpiredToken (401, 'Token has expired'), whatever its issuer, audience
\* and scopes.
C9_ExpiredWhenSignatureValid ==
    (/\ jpc = "done"
     /\ Expired
     /\ SignatureVerified
     /\ ValidateIat(jtoken.payload, ClockNow) = None
     /\ ~(jtoken.payload.nbf # Absent /\ jtoken.payload.nbf > ClockNow)) =>
        /\ jresult.outcome = "ExpiredToken"
        /\ jresult.status = 401

C9_Witness ==
    /\ jpc = "done"
    /\ Expired
    /\ SignatureVerified
    /\ jtoken.payload.iss = "other-issuer"
    /\ jtoken.payload.aud = None
    /\ jresult.outcome = "ExpiredToken"

\* C10: every token whose kid matches no key of the provider's key set
\* fails with KeyNotFound, surfaced as 401, and the request has made
\* exactly one fetch of the key set.
C10_KeyNotFound ==
    (jpc = "done" /\ jtoken.form = "jwt" /\ jtoken.kid # None /\ jtoken.kid \notin jjwks) =>
        /\ jresult.outcome = "KeyNotFound"
        /\ jresult.status = 401
        /\ jfetches = 1

C10_Witness ==
    /\ jpc = "done"
    /\ jtoken.form = "jwt"
    /\ jtoken.kid \in KeyIds
    /\ jtoken.kid \notin jjwks
    /\ jtoken.sig = jtoken.kid
    /\ jresult.outcome = "KeyNotFound"
    /\ jfetches = 1

\* The token's nbf names a time still to come.
NotYetValid == jtoken.payload.nbf # Absent /\ jtoken.payload.nbf > ClockNow

\* The token's iat, when present, is a time that is not ahead of the
\* clock.
IssuedAtAccepted ==
    \/ jtoken.payload.iat = Absent
    \/ jtoken.payload.iat \in 0..ClockNow

\* The statement of C11: every token that fails local verification for a
\* reason other than expiry and key-not-found (it is no JWT, its header
\* carries no kid, its signature does not verify under the key its kid
\* selects, or, unexpired, it names a wrong issuer or audience) ends as
\* InvalidToken, surfaced as 401, and as nothing else.
C11_InvalidTokenAlways ==
    (/\ jpc = "done"
     /\ \/ jtoken.form = "malformed"
        \/ jtoken.kid = None
        \/ /\ jtoken.kid \in jjwks
           /\ \/ ~SignatureVerified
              \/ /\ ~Expired
                 /\ \/ jtoken.payload.iss # OKTA_ISSUER
                    \/ jtoken.payload.aud # OKTA_AUDIENCE) =>
        /\ jresult.outcome = "InvalidToken"
        /\ jresult.status = 401

\* The token passes every check made before the scope check.
PassesAuthentication ==
    /\ SignatureVerified
    /\ jtoken.payload.iss = OKTA_ISSUER
    /\ jtoken.payload.aud = OKTA_AUDIENCE
    /\ ~Expired
    /\ ~NotYetValid
    /\ IssuedAtAccepted

\* The scp claim is absent or has one of the forms scopes come in.
ScopesWellFormed == jtoken.payload.scp.t \in {"absent", "str", "list"}

\* C12: for a token that passes the signature, issuer, audience and expiry
\* checks, the request is allowed (200, payload returned) exactly when the
\* required scope is a member of the token's scopes; otherwise it is denied
\* with InsufficientScope, surfaced as 403 and never as 401.
C12_ScopeCheck ==
    (jpc = "done" /\ PassesAuthentication /\ ScopesWellFormed) =>
        IF NamesScope(jtoken.payload.scp, REQUIRED_SCOPE)
        THEN jresult.outcome = "OK" /\ jresult.status = 200
        ELSE /\ jresult.outcome = "InsufficientScope"
             /\ jresult.status = 403
             /\ jresult.status # HTTP_401_UNAUTHORIZED

\* A scope string holding a longer name of which the required scope is a
\* part is denied.
C12_Witness ==
    /\ jpc = "done"
    /\ PassesAuthentication
    /\ jtoken.payload.scp.t = "str"
    /\ jtoken.payload.scp.str = <<"a", "a">>
    /\ jresult.outcome = "InsufficientScope"
    /\ jresult.status = 403

\* The statement of C13 as claimed, for tokens whose scp claim is well
\* formed, whose nbf has come and whose iat is accepted: every token with
\* a valid signature, unexpired and with the configured issuer and audience
\* is verified and its payload returned.
C13_ValidAlwaysSucceeds ==
    (jpc = "done" /\ PassesAuthentication /\ ScopesWellFormed) =>
        /\ jresult.outcome = "OK"
        /\ jresult.payload = jtoken.payload

\* C13 (amended): every token with a valid signature, unexpired (an exp in
\* the future, or none), not before its nbf, whose iat when present is an
\* integer not ahead of the clock, with the configured issuer and audience,
\* and whose scp claim names the required scope, is verified and the claims
\* returned equal its payload; such a token whose scp claim is absent, or
\* is a string or a list that does not name the required scope, is denied
\* with InsufficientScope (403) and no claims are returned.
C13_ValidWithScopeSucceeds ==
    /\ (/\ jpc = "done"
        /\ PassesAuthentication
        /\ NamesScope(jtoken.payload.scp, REQUIRED_SCOPE)) =>
            /\ jresult.outcome = "OK"
            /\ jresult.status = 200
            /\ jresult.payload = jtoken.payload
    /\ (/\ jpc = "done"
        /\ PassesAuthentication
        /\ ScopesWellFormed
        /\ ~NamesScope(jtoken.payload.scp, REQUIRED_SCOPE)) =>
            /\ jresult.outcome = "InsufficientScope"
            /\ jresult.status = 403
            /\ jresult.payload = NoPayload

\* A token issued at the instant it is verified, carrying the required
\* scope in a list, is accepted.
C13_Witness ==
    /\ jpc = "done"
    /\ PassesAuthentication
    /\ jtoken.payload.exp > ClockNow
    /\ jtoken.payload.iat = ClockNow
    /\ jtoken.payload.scp.t = "list"
    /\ jtoken.payload.scp.list = <<<<"a", "a">>, <<"a">>>>
    /\ jresult.outcome = "OK"
    /\ jresult.payload = jtoken.payload

----------------------------------------------------------------------------
(* Claims about the scopes of a verification result *)

\* The scope names a scope member reports, as a set.
ReportedScopes(sc) ==
    {name \in SeqsUpTo(Letters, MaxScopeLen) : name # <<>> /\ NamesScope(sc, name)}

\* The statement of C14 for introspection: the scopes of the AccessToken
\* are the scopes the provider reported, whether the scope member is one
\* space-delimited string or a list of names.
C14_ScopesNormalized ==
    (/\ ipc = "done"
     /\ iresult.kind = "AccessToken"
     /\ ioutcome.body.fields.scope.t \in {"str", "list"}) =>
        Range(iresult.scopes) = ReportedScopes(ioutcome.body.fields.scope)

----------------------------------------------------------------------------
(* Specifications *)

XNext ==
    \/ XConfigError /\ UNCHANGED <<ivars, jvars, cvars, tvars>>
    \/ XFirstPost /\ UNCHANGED <<ivars, jvars, cvars, tvars>>
    \/ XFirstResponse /\ UNCHANGED <<ivars, jvars, cvars, tvars>>
    \/ XRetryResponse /\ UNCHANGED <<ivars, jvars, cvars, tvars>>

InitExchange == XInit /\ IIdle /\ JIdle /\ CIdle /\ TIdle

SpecExchange == InitExchange /\ [][XNext]_vars

INext ==
    \/ IConstruct /\ UNCHANGED <<xvars, jvars, cvars, tvars>>
    \/ ICall /\ UNCHANGED <<xvars, jvars, cvars, tvars>>
    \/ IFinish /\ UNCHANGED <<xvars, jvars, cvars, tvars>>

InitIntrospect == IInit /\ XIdle /\ JIdle /\ CIdle /\ TIdle

SpecIntrospect == InitIntrospect /\ [][INext]_vars

JNext ==
    \/ JReadHeader /\ UNCHANGED <<xvars, ivars, cvars, tvars>>
    \/ JKeysFetched /\ UNCHANGED <<xvars, ivars, cvars, tvars>>

InitJwt == JInit /\ XIdle /\ IIdle /\ CIdle /\ TIdle

SpecJwt == InitJwt /\ [][JNext]_vars

TNext ==
    \/ TNoToken /\ UNCHANGED <<ivars, jvars, cvars>>
    \/ TCallExchange /\ UNCHANGED <<ivars, jvars, cvars>>
    \/ XConfigError /\ UNCHANGED <<ivars, jvars, cvars, tvars>>
    \/ XFirstPost /\ UNCHANGED <<ivars, jvars, cvars, tvars>>
    \/ XFirstResponse /\ UNCHANGED <<ivars, jvars, cvars, tvars>>
    \/ XRetryResponse /\ UNCHANGED <<ivars, jvars, cvars, tvars>>
    \/ TExchangeFailed /\ UNCHANGED <<ivars, jvars, cvars>>
    \/ TNoApiUrl /\ UNCHANGED <<ivars, jvars, cvars>>
    \/ TDownstreamGet /\ UNCHANGED <<ivars, jvars, cvars>>
    \/ TDownstreamResponse /\ UNCHANGED <<ivars, jvars, cvars>>

InitTool == TInit /\ XNotCalled /\ IIdle /\ JIdle /\ CIdle

SpecTool == InitTool /\ [][TNext]_vars

Next ==
    \/ CBegin /\ UNCHANGED <<xvars, ivars, jvars, tvars>>
    \/ CProviderError /\ UNCHANGED <<xvars, ivars, jvars, tvars>>
    \/ COpenBrowser /\ UNCHANGED <<xvars, ivars, jvars, tvars>>
    \/ HReceive /\ UNCHANGED <<xvars, ivars, jvars, tvars>>
    \/ HStoreState /\ UNCHANGED <<xvars, ivars, jvars, tvars>>
    \/ HAnswer /\ UNCHANGED <<xvars, ivars, jvars, tvars>>
    \/ CPollSleep /\ UNCHANGED <<xvars, ivars, jvars, tvars>>
    \/ CPollSeen /\ UNCHANGED <<xvars, ivars, jvars, tvars>>
    \/ CTimeout /\ UNCHANGED <<xvars, ivars, jvars, tvars>>
    \/ CReadCode /\ UNCHANGED <<xvars, ivars, jvars, tvars>>
    \/ CReadState /\ UNCHANGED <<xvars, ivars, jvars, tvars>>
    \/ CStateMismatch /\ UNCHANGED <<xvars, ivars, jvars, tvars>>
    \/ CExchange /\ UNCHANGED <<xvars, ivars, jvars, tvars>>
    \/ CTokenResponse /\ UNCHANGED <<xvars, ivars, jvars, tvars>>
    \/ CFinally /\ UNCHANGED <<xvars, ivars, jvars, tvars>>

Init == CInit /\ XIdle /\ IIdle /\ JIdle /\ TIdle

Spec == Init /\ [][Next]_vars

\* The main task of authenticate_with_okta: the event loop resumes it after
\* every await, so a step of it that stays possible is eventually taken.
CMain ==
    \/ CBegin \/ CProviderError \/ COpenBrowser \/ CPollSleep \/ CPollSeen \/ CTimeout
    \/ CReadCode \/ CReadState \/ CStateMismatch \/ CExchange \/ CFinally

\* The listener thread finishes the request it is handling.
FairSpec ==
    /\ Init
    /\ [][Next]_vars
    /\ WF_vars(CMain /\ UNCHANGED <<xvars, ivars, jvars, tvars>>)
    /\ WF_vars(HStoreState /\ UNCHANGED <<xvars, ivars, jvars, tvars>>)
    /\ WF_vars(HAnswer /\ UNCHANGED <<xvars, ivars, jvars, tvars>>)

====
